---- MODULE Spec2Model ----
(***************************************************************************)
(* Model of custom_components/timeslot/__init__.py: one Timeslot entity,   *)
(* its configuration, the last state the State Store hands back at         *)
(* startup, the wall clock, and the state machine's published record.      *)
(*                                                                         *)
(* Optional values (Python None / absent dict key) are sequences of length *)
(* 0 or 1: <<>> is None, <<v>> is the value v.                             *)
(* A time of day is a record [hour, minute, second, microsecond], as       *)
(* datetime.time; its text form is a sequence of one-character strings.    *)
(***************************************************************************)
EXTENDS Integers, Sequences, FiniteSets, TLC

VARIABLES
    config,     \* self._config: [id, name, enabled, start, end], fields optional
    snapshot,   \* async_get_last_state(): <<>> or <<[enabled, start, end]>> (texts)
    phase,      \* "new" (constructed), "running" (added), "failed" (add raised)
    ticking,    \* async_track_time_interval has been registered
    id,         \* self._attr_unique_id
    name,       \* self._attr_name (optional)
    enabled,    \* self._enabled
    start,      \* self._start
    end,        \* self._end
    now,        \* datetime.now().time()
    published,  \* last record written by async_write_ha_state (optional)
    lastOp,     \* history: the last step taken
    toggles,    \* history: position in the current pair of toggle calls (0, 1, 2)
    enabled0,   \* history: enabled before the first toggle of the current pair
    args,       \* history: the arguments of the set_parameters call just made (optional)
    writes,     \* history: the number of state writes the last step made
    stopped,    \* history: [enabled, start, end] at the stop, kept until the
                \* restarted entity is added (optional)
    windowSet   \* history: set_parameters has supplied a start or end other than 00:00:00

vars == <<config, snapshot, phase, ticking, id, name, enabled, start, end, now,
          published, lastOp, toggles, enabled0, args, writes, stopped, windowSet>>

None == <<>>

Some(v) == <<v>>

Opt(S) == {None} \cup {Some(v) : v \in S}

\* dict.get(key, default)
Get(o, default) == IF o = None THEN default ELSE o[1]

----------------------------------------------------------------------------
(* datetime.time values, their ordering and their ISO text form *)

T(h, m, s) == [hour |-> h, minute |-> m, second |-> s, microsecond |-> 0]

\* time_sys(): 00:00:00
Midnight == T(0, 0, 0)

\* time.__le__ / __lt__: lexicographic on (hour, minute, second, microsecond)
TimeLT(a, b) ==
    \/ a.hour < b.hour
    \/ a.hour = b.hour /\ a.minute < b.minute
    \/ a.hour = b.hour /\ a.minute = b.minute /\ a.second < b.second
    \/ a.hour = b.hour /\ a.minute = b.minute /\ a.second = b.second
       /\ a.microsecond < b.microsecond

TimeLE(a, b) == a = b \/ TimeLT(a, b)

DigitChars == <<"0", "1", "2", "3", "4", "5", "6", "7", "8", "9">>

IsDigit(c) == \E d \in 1..Len(DigitChars) : DigitChars[d] = c

DigitVal(c) == (CHOOSE d \in 1..Len(DigitChars) : DigitChars[d] = c) - 1

TwoDigits(n) == <<DigitChars[(n \div 10) + 1], DigitChars[(n % 10) + 1]>>

SixDigits(n) ==
    TwoDigits(n \div 10000) \o TwoDigits((n \div 100) % 100) \o TwoDigits(n % 100)

\* isoformat written as strftime("%H:%M")
isoformat_NoSeconds(t) ==
    TwoDigits(t.hour) \o <<":">> \o TwoDigits(t.minute)

\* time.isoformat(): "HH:MM:SS", with ".ffffff" when microsecond is not 0
isoformat(t) ==
    TwoDigits(t.hour) \o <<":">> \o TwoDigits(t.minute) \o <<":">>
        \o TwoDigits(t.second)
        \o (IF t.microsecond = 0 THEN <<>> ELSE <<".">> \o SixDigits(t.microsecond))

AllDigits(s) == \A i \in 1..Len(s) : IsDigit(s[i])

RECURSIVE Number(_)
Number(s) == IF s = <<>> THEN 0
             ELSE 10 * Number(SubSeq(s, 1, Len(s) - 1)) + DigitVal(s[Len(s)])

\* the text has the shape HH[:MM[:SS[.fff[fff]]]]
IsoShape(s) ==
    /\ Len(s) \in {2, 5, 8, 12, 15}
    /\ AllDigits(SubSeq(s, 1, 2))
    /\ Len(s) >= 5 => s[3] = ":" /\ AllDigits(SubSeq(s, 4, 5))
    /\ Len(s) >= 8 => s[6] = ":" /\ AllDigits(SubSeq(s, 7, 8))
    /\ Len(s) >= 12 => s[9] = "." /\ AllDigits(SubSeq(s, 10, Len(s)))

IsoFields(s) ==
    [hour |-> Number(SubSeq(s, 1, 2)),
     minute |-> IF Len(s) >= 5 THEN Number(SubSeq(s, 4, 5)) ELSE 0,
     second |-> IF Len(s) >= 8 THEN Number(SubSeq(s, 7, 8)) ELSE 0,
     microsecond |-> IF Len(s) = 15 THEN Number(SubSeq(s, 10, 15))
                     ELSE IF Len(s) = 12 THEN 1000 * Number(SubSeq(s, 10, 12))
                     ELSE 0]

\* time.fromisoformat(text): Some(time), or None when it raises ValueError
fromisoformat(s) ==
    IF ~IsoShape(s) THEN None
    ELSE LET t == IsoFields(s)
         IN IF t.hour < 24 /\ t.minute < 60 /\ t.second < 60 THEN Some(t) ELSE None

----------------------------------------------------------------------------
(* The entity's properties *)

\* is_on with the night branch forgetting the enabled flag
is_on_NightIgnoresEnabled(t) ==
    IF TimeLE(start, end)
    THEN enabled /\ TimeLE(start, t) /\ TimeLT(t, end)
    ELSE TimeLE(start, t) \/ TimeLT(t, end)

\* is_on with an inclusive end bound in the same-day branch
is_on_EndInclusive(t) ==
    IF TimeLE(start, end)
    THEN enabled /\ TimeLE(start, t) /\ TimeLE(t, end)
    ELSE enabled /\ (TimeLE(start, t) \/ TimeLT(t, end))

\* is_on with "and" for "or" in the night branch
is_on_NightAnd(t) ==
    IF TimeLE(start, end)
    THEN enabled /\ TimeLE(start, t) /\ TimeLT(t, end)
    ELSE enabled /\ (TimeLE(start, t) /\ TimeLT(t, end))

\* is_on choosing the same-day branch on start < end only
is_on_StrictBranch(t) ==
    IF TimeLT(start, end)
    THEN enabled /\ TimeLE(start, t) /\ TimeLT(t, end)
    ELSE enabled /\ (TimeLE(start, t) \/ TimeLT(t, end))

\* is_on returning the enabled flag alone
is_on_EnabledOnly(t) == enabled

\* Timeslot.is_on, evaluated at clock reading t
is_on(t) ==
    IF TimeLE(start, end)
    THEN enabled /\ TimeLE(start, t) /\ TimeLT(t, end)
    ELSE enabled /\ (TimeLE(start, t) \/ TimeLT(t, end))

\* Timeslot.state
state(t) == IF is_on(t) THEN "on" ELSE "off"

\* Timeslot.extra_state_attributes for field values en, st, e
extra_state_attributes(en, st, e) ==
    [editable |-> TRUE, enabled |-> en, start |-> isoformat(st), end |-> isoformat(e)]

\* the record async_write_ha_state() hands to the state machine
CurrentRecord ==
    [state |-> state(now),
     attributes |-> extra_state_attributes(enabled, start, end)]

\* Entity.async_write_ha_state(), called once the fields have their new values
async_write_ha_state ==
    /\ published' = Some(CurrentRecord)'
    /\ writes' = 1

----------------------------------------------------------------------------
(* Inputs *)

Ids == {"slot"}

Names == {"Slot"}

\* times used by the configuration and by set_parameters
FieldTimes == {Midnight, T(8, 0, 0)}

\* clock readings
ClockTimes == {Midnight, T(7, 0, 0), T(8, 0, 0)}

\* configurations: every field but the id may be absent (ATTR_SCHEMA)
ConfigsOver(startTimes, endTimes) ==
    [id : Ids, name : Opt(Names), enabled : Opt(BOOLEAN),
     start : Opt(startTimes), end : Opt(endTimes)]

Configs == ConfigsOver({T(8, 0, 0)}, {T(8, 0, 0)})

\* Timeslot.__init__ has run on configuration c, the State Store holds s,
\* the clock reads one of the times in clock
Constructed(c, s, clock) ==
    /\ config = c
    /\ snapshot = s
    /\ phase = "new"
    /\ ticking = FALSE
    /\ id = c.id
    /\ name = c.name
    /\ enabled = Get(c.enabled, FALSE)
    /\ start = Get(c.start, Midnight)
    /\ end = Get(c.end, Midnight)
    /\ now \in clock
    /\ published = None
    /\ lastOp = "init"
    /\ toggles = 0
    /\ enabled0 = Get(c.enabled, FALSE)
    /\ args = None
    /\ writes = 0
    /\ stopped = None
    /\ windowSet = FALSE

\* a fresh installation: nothing to restore
Init == \E c \in Configs : Constructed(c, None, ClockTimes)

----------------------------------------------------------------------------
(* Startup *)

\* the restore of enabled testing the configured value for falsiness
RestoreEnabled_Falsy(old) ==
    IF config.enabled = None \/ config.enabled = Some(FALSE)
    THEN old.enabled ELSE enabled

\* lines 174-176: the fields after the restore, and whether a parse raised.
\* The three statements run in order; a ValueError leaves the later ones undone.
RestoreEnabled(old) ==
    IF config.enabled = None THEN old.enabled ELSE enabled

RestoreStartRaises(old) ==
    config.start = None /\ fromisoformat(old.start) = None

\* the restore of start made only for an entity that is already enabled
RestoreStart_WhenEnabled(old) ==
    IF config.start = None /\ ~RestoreStartRaises(old) /\ enabled
    THEN fromisoformat(old.start)[1] ELSE start

RestoreStart(old) ==
    IF config.start = None /\ ~RestoreStartRaises(old)
    THEN fromisoformat(old.start)[1] ELSE start

RestoreEndRaises(old) ==
    ~RestoreStartRaises(old) /\ config.end = None /\ fromisoformat(old.end) = None

RestoreEnd(old) ==
    IF config.end = None /\ ~RestoreStartRaises(old) /\ ~RestoreEndRaises(old)
    THEN fromisoformat(old.end)[1] ELSE end

\* Timeslot.async_added_to_hass, followed by the first state write that
\* async_add_entities makes once the entity is added. When the restore
\* raises, the entity is not added: no tick, no state write.
async_added_to_hass ==
    /\ phase = "new"
    /\ lastOp' = "added"
    /\ IF snapshot = None
       THEN /\ UNCHANGED <<enabled, start, end>>
            /\ phase' = "running"
       ELSE LET old == snapshot[1]
            IN /\ enabled' = RestoreEnabled(old)
               /\ start' = RestoreStart(old)
               /\ end' = RestoreEnd(old)
               /\ phase' = IF RestoreStartRaises(old) \/ RestoreEndRaises(old)
                           THEN "failed" ELSE "running"
    /\ ticking' = (phase' = "running")
    /\ UNCHANGED <<config, snapshot, id, name, now>>
    /\ toggles' = 0
    /\ enabled0' = enabled'
    /\ args' = None
    /\ stopped' = None
    /\ UNCHANGED windowSet
    /\ IF phase' = "running"
       THEN async_write_ha_state
       ELSE UNCHANGED published /\ writes' = 0

----------------------------------------------------------------------------
(* Operations on the running entity *)

\* Timeslot.turn_on (service turn_on): should_poll is False, so the service
\* call is not followed by a state write
turn_on ==
    /\ phase = "running"
    /\ enabled' = TRUE
    /\ lastOp' = "turn_on"
    /\ toggles' = 0
    /\ enabled0' = TRUE
    /\ args' = None
    /\ writes' = 0
    /\ UNCHANGED <<config, snapshot, phase, ticking, id, name, start, end, now, published,
                   stopped, windowSet>>

\* turn_off written as a copy of turn_on
turn_off_Enables ==
    /\ phase = "running"
    /\ enabled' = TRUE
    /\ lastOp' = "turn_off"
    /\ toggles' = 0
    /\ enabled0' = TRUE
    /\ args' = None
    /\ writes' = 0
    /\ UNCHANGED <<config, snapshot, phase, ticking, id, name, start, end, now, published,
                   stopped, windowSet>>

\* Timeslot.turn_off (service turn_off)
turn_off ==
    /\ phase = "running"
    /\ enabled' = FALSE
    /\ lastOp' = "turn_off"
    /\ toggles' = 0
    /\ enabled0' = FALSE
    /\ args' = None
    /\ writes' = 0
    /\ UNCHANGED <<config, snapshot, phase, ticking, id, name, start, end, now, published,
                   stopped, windowSet>>

\* ToggleEntity.toggle, which Timeslot inherits and async_setup registers as
\* the toggle service: turn_off when is_on, else turn_on
ToggleResult == IF is_on(now) THEN FALSE ELSE TRUE

toggle ==
    /\ phase = "running"
    /\ enabled' = ToggleResult
    /\ lastOp' = "toggle"
    /\ toggles' = IF toggles = 1 THEN 2 ELSE 1
    /\ enabled0' = IF toggles = 1 THEN enabled0 ELSE enabled
    /\ args' = None
    /\ writes' = 0
    /\ UNCHANGED <<config, snapshot, phase, ticking, id, name, start, end, now, published,
                   stopped, windowSet>>

\* Timeslot.async_set_parameters: None arguments are absent
SetField(arg, old) == IF arg # None THEN arg[1] ELSE old

\* async_set_parameters testing the enabled argument for truth ("if enabled:")
async_set_parameters_Truthy(a_name, a_enabled, a_start, a_end) ==
    /\ phase = "running"
    /\ name' = IF a_name # None THEN a_name ELSE name
    /\ enabled' = IF a_enabled = Some(TRUE) THEN TRUE ELSE enabled
    /\ start' = SetField(a_start, start)
    /\ end' = SetField(a_end, end)
    /\ lastOp' = "set_parameters"
    /\ toggles' = 0
    /\ enabled0' = enabled'
    /\ args' = Some([name |-> a_name, enabled |-> a_enabled,
                      start |-> a_start, end |-> a_end])
    /\ windowSet' = (windowSet \/ a_start \notin {None, Some(Midnight)}
                              \/ a_end \notin {None, Some(Midnight)})
    /\ UNCHANGED <<config, snapshot, phase, ticking, id, now, stopped>>
    /\ async_write_ha_state

\* async_set_parameters writing the state only when some argument is provided
async_set_parameters_WriteOnChange(a_name, a_enabled, a_start, a_end) ==
    /\ phase = "running"
    /\ name' = IF a_name # None THEN a_name ELSE name
    /\ enabled' = SetField(a_enabled, enabled)
    /\ start' = SetField(a_start, start)
    /\ end' = SetField(a_end, end)
    /\ lastOp' = "set_parameters"
    /\ toggles' = 0
    /\ enabled0' = enabled'
    /\ args' = Some([name |-> a_name, enabled |-> a_enabled,
                      start |-> a_start, end |-> a_end])
    /\ windowSet' = (windowSet \/ a_start \notin {None, Some(Midnight)}
                              \/ a_end \notin {None, Some(Midnight)})
    /\ UNCHANGED <<config, snapshot, phase, ticking, id, now, stopped>>
    /\ IF <<a_name, a_enabled, a_start, a_end>> = <<None, None, None, None>>
       THEN UNCHANGED published /\ writes' = 0
       ELSE async_write_ha_state

async_set_parameters(a_name, a_enabled, a_start, a_end) ==
    /\ phase = "running"
    /\ name' = IF a_name # None THEN a_name ELSE name
    /\ enabled' = SetField(a_enabled, enabled)
    /\ start' = SetField(a_start, start)
    /\ end' = SetField(a_end, end)
    /\ lastOp' = "set_parameters"
    /\ toggles' = 0
    /\ enabled0' = enabled'
    /\ args' = Some([name |-> a_name, enabled |-> a_enabled,
                      start |-> a_start, end |-> a_end])
    /\ windowSet' = (windowSet \/ a_start \notin {None, Some(Midnight)}
                              \/ a_end \notin {None, Some(Midnight)})
    /\ UNCHANGED <<config, snapshot, phase, ticking, id, now, stopped>>
    /\ async_write_ha_state

set_parameters ==
    \E a_name \in Opt(Names), a_enabled \in Opt(BOOLEAN),
       a_start \in Opt(FieldTimes), a_end \in Opt(FieldTimes) :
        async_set_parameters(a_name, a_enabled, a_start, a_end)

\* _async_update with an empty body
_async_update_NoWrite ==
    /\ ticking
    /\ lastOp' = "tick"
    /\ UNCHANGED <<config, snapshot, phase, ticking, id, name, enabled, start, end,
                   now, toggles, enabled0, stopped, windowSet>>
    /\ args' = None
    /\ UNCHANGED published
    /\ writes' = 0

\* _async_update storing the recomputed state in the enabled flag
_async_update_StoresState ==
    /\ ticking
    /\ lastOp' = "tick"
    /\ enabled' = is_on(now)
    /\ UNCHANGED <<config, snapshot, phase, ticking, id, name, start, end,
                   now, toggles, enabled0, stopped, windowSet>>
    /\ args' = None
    /\ async_write_ha_state

\* Timeslot._async_update: the callback of the one-minute interval
_async_update ==
    /\ ticking
    /\ lastOp' = "tick"
    /\ UNCHANGED <<config, snapshot, phase, ticking, id, name, enabled, start, end,
                   now, toggles, enabled0, stopped, windowSet>>
    /\ args' = None
    /\ async_write_ha_state

\* the wall clock moves to another reading
ClockMoves(clock) ==
    /\ now' \in clock \ {now}
    /\ lastOp' = "clock"
    /\ UNCHANGED <<config, snapshot, phase, ticking, id, name, enabled, start, end,
                   published, toggles, enabled0, stopped, windowSet>>
    /\ args' = None
    /\ writes' = 0

clock_advance == ClockMoves(ClockTimes)

Next ==
    \/ async_added_to_hass
    \/ turn_on
    \/ turn_off
    \/ toggle
    \/ set_parameters
    \/ _async_update
    \/ clock_advance

Spec == Init /\ [][Next]_vars

----------------------------------------------------------------------------
(* Startup against whatever the State Store holds *)

\* times whose text form a stored state may carry
SnapshotTimes == {Midnight, T(8, 0, 0), T(22, 30, 15)}

\* texts that are no time of day: "25:00:00" and "8am"
MalformedTexts == {<<"2", "5", ":", "0", "0", ":", "0", "0">>, <<"8", "a", "m">>}

SnapshotTexts == {isoformat(t) : t \in SnapshotTimes} \cup MalformedTexts

Snapshots == Opt([enabled : BOOLEAN, start : SnapshotTexts, end : SnapshotTexts])

RestoreConfigs == ConfigsOver({Midnight, T(8, 0, 0)}, {Midnight, T(8, 0, 0)})

InitRestore ==
    \E c \in RestoreConfigs, s \in Snapshots : Constructed(c, s, ClockTimes)

NextRestore ==
    \/ async_added_to_hass
    \/ _async_update
    \/ clock_advance

SpecRestore == InitRestore /\ [][NextRestore]_vars

----------------------------------------------------------------------------
(* Day and night windows around the clock *)

WindowTimes == {T(6, 0, 0), T(8, 0, 0), T(17, 0, 0), T(22, 0, 0)}

WindowClock ==
    {Midnight, T(6, 0, 0), T(7, 0, 0), T(8, 0, 0), T(17, 0, 0), T(22, 0, 0),
     T(23, 30, 0)}

InitWindow ==
    \E c \in ConfigsOver(WindowTimes, WindowTimes) : Constructed(c, None, WindowClock)

window_clock_advance == ClockMoves(WindowClock)

NextWindow ==
    \/ async_added_to_hass
    \/ _async_update
    \/ window_clock_advance

SpecWindow == InitWindow /\ [][NextWindow]_vars

----------------------------------------------------------------------------
(* Stop and restart with the same configuration *)

\* the attributes of a published record that the restore reads
StoredState(record) ==
    [enabled |-> record.attributes.enabled,
     start |-> record.attributes.start,
     end |-> record.attributes.end]

\* The process stops and starts again: the State Store keeps the last
\* published record, async_setup constructs the entity anew from the same
\* configuration, and async_get_last_state will return the kept record.
restart ==
    /\ phase = "running"
    /\ stopped' = Some([enabled |-> enabled, start |-> start, end |-> end])
    /\ snapshot' = Some(StoredState(published[1]))
    /\ phase' = "new"
    /\ ticking' = FALSE
    /\ name' = config.name
    /\ enabled' = Get(config.enabled, FALSE)
    /\ start' = Get(config.start, Midnight)
    /\ end' = Get(config.end, Midnight)
    /\ published' = None
    /\ lastOp' = "restart"
    /\ toggles' = 0
    /\ enabled0' = enabled'
    /\ args' = None
    /\ writes' = 0
    /\ windowSet' = FALSE
    /\ UNCHANGED <<config, id, now>>

\* configurations of the restarted entity
RestartConfigs ==
    [id : Ids, name : {None}, enabled : Opt(BOOLEAN),
     start : Opt({T(8, 0, 0)}), end : Opt({T(17, 0, 0)})]

RestartClock == {T(7, 0, 0), T(23, 0, 0)}

InitRestart == \E c \in RestartConfigs : Constructed(c, None, RestartClock)

\* set_parameters calls that give the entity a night window
set_window ==
    \E a_enabled \in Opt(BOOLEAN), a_start \in Opt({T(22, 30, 15)}),
       a_end \in Opt({T(8, 0, 0)}) :
        async_set_parameters(None, a_enabled, a_start, a_end)

restart_clock_advance == ClockMoves(RestartClock)

NextRestart ==
    \/ async_added_to_hass
    \/ turn_on
    \/ turn_off
    \/ toggle
    \/ set_window
    \/ _async_update
    \/ restart_clock_advance
    \/ restart

SpecRestart == InitRestart /\ [][NextRestart]_vars

----------------------------------------------------------------------------
(* Properties *)

\* position in the day: seconds since midnight, then microseconds
SecondOfDay(t) == (t.hour * 60 + t.minute) * 60 + t.second

Earlier(a, b) ==
    \/ SecondOfDay(a) < SecondOfDay(b)
    \/ SecondOfDay(a) = SecondOfDay(b) /\ a.microsecond < b.microsecond

NotLater(a, b) == ~Earlier(b, a)

\* C1: every toggle call leaves enabled equal to the negation of the value
\* it had before the call, wherever the clock stands.
C1_ToggleNegatesEnabled == [][lastOp' = "toggle" => enabled' = ~enabled]_vars

\* C2: after two toggle calls with no other mutator between them (ticks and
\* clock movement allowed), enabled has the value it had before the first.
C2_ToggleTwiceRestores == toggles = 2 => enabled = enabled0

\* C3: right after turn_on, turn_off, toggle, set_parameters or a tick, the
\* latest published record is the entity's current state and attributes.
C3_PublishedAfterEveryOperation ==
    lastOp \in {"turn_on", "turn_off", "toggle", "set_parameters", "tick"}
        => published = Some(CurrentRecord)

\* C4: once startup has completed, each of enabled, start, end is the
\* configured value if configured, else the stored state's value if there is
\* a stored state, else the default (false, 00:00:00).
C4_RestoreMergePerField ==
    phase = "running" =>
        /\ enabled = IF config.enabled # None THEN config.enabled[1]
                     ELSE IF snapshot # None THEN snapshot[1].enabled
                     ELSE FALSE
        /\ IF config.start # None THEN start = config.start[1]
           ELSE IF snapshot # None THEN isoformat(start) = snapshot[1].start
           ELSE start = Midnight
        /\ IF config.end # None THEN end = config.end[1]
           ELSE IF snapshot # None THEN isoformat(end) = snapshot[1].end
           ELSE end = Midnight

C4_Witness ==
    /\ phase = "running"
    /\ lastOp = "added"
    /\ snapshot # None
    /\ config.enabled = Some(TRUE) /\ snapshot[1].enabled = FALSE /\ enabled
    /\ config.start = Some(Midnight) /\ snapshot[1].start = isoformat(T(8, 0, 0))
    /\ start = Midnight
    /\ config.end = None /\ end = T(22, 30, 15)

\* C5: startup with a stored state always completes and registers the tick;
\* an unconfigured field whose stored text does not parse is 00:00:00 and
\* the other unconfigured fields carry the stored values.
C5_MalformedSnapshotStillStarts ==
    (lastOp # "init" /\ snapshot # None) =>
        LET old == snapshot[1]
            badStart == config.start = None /\ fromisoformat(old.start) = None
            badEnd == config.end = None /\ fromisoformat(old.end) = None
        IN /\ phase = "running"
           /\ ticking
           /\ config.enabled = None => enabled = old.enabled
           /\ badStart => start = Midnight
           /\ badEnd => end = Midnight
           /\ (config.start = None /\ ~badStart) => isoformat(start) = old.start
           /\ (config.end = None /\ ~badEnd) => isoformat(end) = old.end

\* C6: a disabled entity is off at every clock reading, for same-day and
\* night windows alike, and a tick publishes "off" for it.
C6_DisabledNeverActive ==
    ~enabled =>
        /\ \A t \in WindowClock : ~is_on(t)
        /\ lastOp = "tick" => published[1].state = "off"

C6_Witness ==
    /\ lastOp = "tick"
    /\ ~enabled
    /\ start = T(22, 0, 0) /\ end = T(6, 0, 0) /\ now = T(23, 30, 0)

\* C7: an enabled same-day window (start <= end) is on exactly at the clock
\* readings t with start <= t < end, and a tick publishes that state.
C7_SameDayWindow ==
    (enabled /\ NotLater(start, end)) =>
        /\ \A t \in WindowClock :
              is_on(t) <=> (NotLater(start, t) /\ Earlier(t, end))
        /\ lastOp = "tick" =>
              (published[1].state = "on"
                  <=> (NotLater(start, now) /\ Earlier(now, end)))

C7_Witness ==
    /\ lastOp = "tick"
    /\ enabled /\ start = T(8, 0, 0) /\ end = T(17, 0, 0)
    /\ now = T(8, 0, 0)
    /\ published[1].state = "on"
    /\ ~is_on(T(17, 0, 0))

\* C8: an enabled night window (start > end) is on exactly at the clock
\* readings t with t >= start or t < end, and a tick publishes that state.
C8_NightWindow ==
    (enabled /\ Earlier(end, start)) =>
        /\ \A t \in WindowClock :
              is_on(t) <=> (NotLater(start, t) \/ Earlier(t, end))
        /\ lastOp = "tick" =>
              (published[1].state = "on"
                  <=> (NotLater(start, now) \/ Earlier(now, end)))

C8_Witness ==
    /\ lastOp = "tick"
    /\ enabled /\ start = T(22, 0, 0) /\ end = T(6, 0, 0)
    /\ now = T(23, 30, 0)
    /\ published[1].state = "on"
    /\ is_on(Midnight) /\ ~is_on(T(6, 0, 0)) /\ ~is_on(T(7, 0, 0))

\* C9: an enabled entity with start = end is off at every clock reading.
C9_EqualBoundsEmpty ==
    (enabled /\ start = end) =>
        /\ \A t \in WindowClock : ~is_on(t)
        /\ lastOp = "tick" => published[1].state = "off"

C9_Witness ==
    /\ lastOp = "tick"
    /\ enabled /\ start = T(8, 0, 0) /\ end = T(8, 0, 0) /\ now = T(8, 0, 0)

\* C10: a turn_on call leaves enabled true, a turn_off call leaves it false,
\* and neither changes id, name, start or end.
C10_TurnOnOffFrame ==
    [][/\ lastOp' = "turn_on" => enabled' = TRUE
       /\ lastOp' = "turn_off" => enabled' = FALSE
       /\ lastOp' \in {"turn_on", "turn_off"} =>
             (id' = id /\ name' = name /\ start' = start /\ end' = end)]_vars

C10_Witness ==
    /\ lastOp = "turn_off"
    /\ ~enabled
    /\ name # None /\ start = T(8, 0, 0) /\ end = Midnight

\* C11: a set_parameters call leaves each of name, enabled, start, end equal
\* to its argument when the argument is provided and unchanged when it is
\* absent, for every subset of provided arguments; enabled=false counts as
\* provided.
C11_SetParametersFrame ==
    [][lastOp' = "set_parameters" =>
          LET a == args'[1]
          IN /\ name' = IF a.name = None THEN name ELSE a.name
             /\ enabled' = IF a.enabled = None THEN enabled ELSE a.enabled[1]
             /\ start' = IF a.start = None THEN start ELSE a.start[1]
             /\ end' = IF a.end = None THEN end ELSE a.end[1]
             /\ id' = id]_vars

\* set_parameters(enabled=false) alone on an enabled entity with a window
C11_Witness ==
    /\ lastOp = "set_parameters"
    /\ args = Some([name |-> None, enabled |-> Some(FALSE), start |-> None, end |-> None])
    /\ ~enabled
    /\ start = T(8, 0, 0) /\ end = Midnight
    /\ enabled0 = FALSE


NoArguments == [name |-> None, enabled |-> None, start |-> None, end |-> None]

\* C12: every set_parameters call makes exactly one state write, and the
\* record written is the entity's state after the call, also when no
\* argument is provided or no field changes value; with no arguments the
\* call changes no field and the entity keeps running.
C12_SetParametersAlwaysPublishes ==
    [][lastOp' = "set_parameters" =>
          /\ writes' = 1
          /\ published' = Some(CurrentRecord)'
          /\ phase' = "running"
          /\ args'[1] = NoArguments =>
                (name' = name /\ enabled' = enabled /\ start' = start /\ end' = end)]_vars

\* set_parameters() with no argument, while the published record was stale
\* only in its state (the clock had moved into the window since the last write)
C12_Witness ==
    /\ lastOp = "set_parameters"
    /\ args = Some(NoArguments)
    /\ writes = 1
    /\ enabled /\ start = Midnight /\ end = T(8, 0, 0) /\ now = T(7, 0, 0)
    /\ published = Some(CurrentRecord)


\* C13: once startup has restored the fields from a stored state, running
\* the restore again with the same stored state and configuration raises
\* nothing and gives the same enabled, start and end.
C13_RestoreIdempotent ==
    (phase = "running" /\ snapshot # None) =>
        LET old == snapshot[1]
        IN /\ ~RestoreStartRaises(old)
           /\ ~RestoreEndRaises(old)
           /\ RestoreEnabled(old) = enabled
           /\ RestoreStart(old) = start
           /\ RestoreEnd(old) = end

\* nothing configured, every field taken from the stored state
C13_Witness ==
    /\ phase = "running"
    /\ lastOp = "added"
    /\ config.enabled = None /\ config.start = None /\ config.end = None
    /\ snapshot = Some([enabled |-> TRUE, start |-> isoformat(T(22, 30, 15)),
                        end |-> isoformat(T(8, 0, 0))])
    /\ enabled /\ start = T(22, 30, 15) /\ end = T(8, 0, 0)


\* membership of clock reading t in the window [start, end), wrapping at midnight
InWindow(t) ==
    IF NotLater(start, end)
    THEN NotLater(start, t) /\ Earlier(t, end)
    ELSE NotLater(start, t) \/ Earlier(t, end)

\* C14: the tick is registered for every running entity, and right after
\* each tick the published state is "on" exactly when the entity is enabled
\* and the clock is inside the window, and the published enabled, start and
\* end are the entity's fields; so every transition, by the clock or by an
\* operation, is visible at the latest after the next tick.
C14_TickPublishesCurrentState ==
    /\ phase = "running" => ticking
    /\ lastOp = "tick" =>
          /\ published # None
          /\ published[1].state = "on" <=> (enabled /\ InWindow(now))
          /\ published[1].attributes.enabled = enabled
          /\ published[1].attributes.start = isoformat(start)
          /\ published[1].attributes.end = isoformat(end)

\* turn_on had left the record stale; the tick after it shows the entity on
C14_Witness ==
    /\ lastOp = "tick"
    /\ config.enabled = None
    /\ enabled /\ start = Midnight /\ end = T(8, 0, 0) /\ now = T(7, 0, 0)
    /\ published[1].state = "on"
    /\ published[1].attributes.enabled

\* C15: a tick changes none of id, name, enabled, start, end; it makes one
\* state write, of the current state and attributes.
C15_TickChangesNoField ==
    [][lastOp' = "tick" =>
          /\ id' = id /\ name' = name /\ enabled' = enabled
          /\ start' = start /\ end' = end
          /\ writes' = 1
          /\ published' = Some(CurrentRecord)]_vars

\* a tick on an enabled entity whose window does not hold the clock
C15_Witness ==
    /\ lastOp = "tick"
    /\ writes = 1
    /\ enabled /\ start = T(8, 0, 0) /\ end = Midnight /\ now = T(7, 0, 0)
    /\ name # None
    /\ published[1].state = "off"


\* C16: when a stopped entity is added again with the same configuration,
\* startup completes and each of enabled, start, end that the configuration
\* does not specify has the value it held at the stop.
C16_RestartPreservesUnconfigured ==
    [][(lastOp' = "added" /\ stopped # None) =>
          /\ phase' = "running"
          /\ config.enabled = None => enabled' = stopped[1].enabled
          /\ config.start = None => start' = stopped[1].start
          /\ config.end = None => end' = stopped[1].end]_vars

NothingConfigured ==
    config.enabled = None /\ config.start = None /\ config.end = None

\* C17: when nothing is configured and the stored state is the record the
\* entity publishes for the fields it had at the stop, startup completes
\* with exactly those fields, and the record it then publishes carries the
\* stored texts again.
C17_PublishRestoreRoundTrip ==
    [][(/\ lastOp' = "added"
        /\ stopped # None
        /\ NothingConfigured
        /\ snapshot = Some(StoredState([attributes |->
               extra_state_attributes(stopped[1].enabled, stopped[1].start,
                                      stopped[1].end)]))) =>
          /\ phase' = "running"
          /\ enabled' = stopped[1].enabled
          /\ start' = stopped[1].start
          /\ end' = stopped[1].end
          /\ StoredState(published'[1]) = snapshot[1]]_vars

C17_Witness ==
    /\ lastOp = "added"
    /\ phase = "running"
    /\ NothingConfigured
    /\ snapshot = Some([enabled |-> TRUE, start |-> isoformat(T(22, 30, 15)),
                        end |-> isoformat(T(8, 0, 0))])
    /\ enabled /\ start = T(22, 30, 15) /\ end = T(8, 0, 0)
    /\ StoredState(published[1]) = snapshot[1]


\* C18: an entity constructed without start and end in its configuration
\* and without a stored state is off at every clock reading, and every
\* record it publishes says "off", as long as no set_parameters call has
\* supplied a start or an end other than 00:00:00, whatever turn_on,
\* turn_off, toggle, tick and other set_parameters calls were made.
C18_DefaultWindowStaysOff ==
    (config.start = None /\ config.end = None /\ snapshot = None /\ ~windowSet) =>
        /\ \A t \in ClockTimes : ~is_on(t)
        /\ published # None => published[1].state = "off"

\* turned on, toggled and ticked, still off
C18_Witness ==
    /\ config.start = None /\ config.end = None /\ snapshot = None
    /\ ~windowSet
    /\ enabled
    /\ toggles = 2
    /\ lastOp = "tick"
    /\ published[1].attributes.enabled
    /\ published[1].state = "off"

====
